---- MODULE Spec2Model ----
(***************************************************************************)
(* A model of the chat store of src/src/store.ts (class Store): the        *)
(* in-memory collections, the persisted copies, the outstanding provider   *)
(* requests and the handlers that merge provider data into the store.      *)
(*                                                                         *)
(* Encoding.  Ids, names and timestamps are integers (a timestamp string   *)
(* "100" is the integer 100, +ts is the integer itself).  A JavaScript     *)
(* object is a function whose DOMAIN is the set of its own keys, so that   *)
(* the spread {...a, ...b} keeps the keys b does not have.  The value      *)
(* undefined of an integer-typed field is the integer `undefined`; a       *)
(* collection or record that is undefined as a whole is named in `undef`.  *)
(* A handler is an operator from a store record to a store record; a       *)
(* TypeError it raises sets the field threw, and the rest of the handler   *)
(* is skipped, what it did before the throw being kept.                    *)
(***************************************************************************)
EXTENDS Integers, Sequences, FiniteSets, TLC

VARIABLES
  lastChannelId,      \* this.lastChannelId (undefined when unset)
  channels,           \* this.channels: sequence of channel objects
  channelsFetchedAt,  \* this.channelsFetchedAt (ms, undefined when unset)
  currentUserInfo,    \* this.currentUserInfo: object with id, currentTeamId, provider
  currentUserPrefs,   \* this.currentUserPrefs.mutedChannels: set of channel ids
  users,              \* this.users: user id -> user object
  usersFetchedAt,     \* this.usersFetchedAt (ms, undefined when unset)
  messages,           \* this.messages: channel id -> (timestamp -> message)
  chatProvider,       \* this.chatProvider: "none" when unbound, else "bound"
  undef,              \* the fields among channels, users, currentUserInfo that hold undefined
  globalState,        \* context.globalState: persisted key -> value
  statusItem,         \* the count last given to statusItem.updateCount
  pending,            \* provider requests that have not been answered yet
  joins,              \* the Promise.all groups of fetchChannels and fillUpUsers
  calls,              \* promises handed to callers of getUsersPromise / getChannelsPromise
  now,                \* the wall clock (new Date().valueOf())
  ui,                 \* UI notifications issued by the last step
  writes,             \* globalState keys written by the last step
  sent,               \* provider methods called by the last step
  threw,              \* the last step ended in a thrown TypeError
  op                  \* the last step: its name and arguments

vars == << lastChannelId, channels, channelsFetchedAt, currentUserInfo,
           currentUserPrefs, users, usersFetchedAt, messages, chatProvider,
           undef, globalState, statusItem, pending, joins, calls, now,
           ui, writes, sent, threw, op >>

(***************************************************************************)
(* Program constants                                                       *)
(***************************************************************************)
undefined == -1

STORAGE_SIZE_LIMIT == 100

FETCH_THRESHOLD == 15 * 60 * 1000

stateKeys ==
  [ LAST_CHANNEL_ID |-> "lastChannelId", CHANNELS |-> "channels",
    USER_INFO |-> "userInfo", USERS |-> "users" ]

(***************************************************************************)
(* Bounds of the model                                                     *)
(***************************************************************************)
MaxPending == 2      \* provider requests outstanding at once
MaxFillUps == 1      \* fetchUserInfo requests outstanding at once
MaxCalls == 2        \* promises handed out by get*Promise in one behaviour
MaxTicks == 2        \* clock ticks in one behaviour
MaxCount == 2        \* largest reaction count an addReaction is applied to

(***************************************************************************)
(* JavaScript objects                                                      *)
(***************************************************************************)
EmptyObject == [k \in {} |-> undefined]

Get(o, f) == IF f \in DOMAIN o THEN o[f] ELSE undefined

\* {...a, ...b}
Spread(a, b) ==
  [f \in DOMAIN a \cup DOMAIN b |-> IF f \in DOMAIN b THEN b[f] ELSE a[f]]

\* !!v of an integer-coded id, timestamp string or Date
Truthy(v) == v # undefined

RECURSIVE SumSeq(_)
SumSeq(q) == IF q = << >> THEN 0 ELSE Head(q) + SumSeq(Tail(q))

\* q without its i-th element
RemoveAt(q, i) == SubSeq(q, 1, i - 1) \o SubSeq(q, i + 1, Len(q))

(***************************************************************************)
(* The store as one record.  Store is the current state with the effects   *)
(* of the previous step forgotten: every handler starts from it.           *)
(***************************************************************************)
Store ==
  [ lastChannelId |-> lastChannelId, channels |-> channels,
    channelsFetchedAt |-> channelsFetchedAt,
    currentUserInfo |-> currentUserInfo,
    currentUserPrefs |-> currentUserPrefs, users |-> users,
    usersFetchedAt |-> usersFetchedAt, messages |-> messages,
    chatProvider |-> chatProvider, undef |-> undef,
    globalState |-> globalState, statusItem |-> statusItem,
    pending |-> pending, joins |-> joins, calls |-> calls, now |-> now,
    ui |-> {}, writes |-> {}, sent |-> {}, threw |-> FALSE ]

Commit(s, o) ==
  /\ lastChannelId' = s.lastChannelId
  /\ channels' = s.channels
  /\ channelsFetchedAt' = s.channelsFetchedAt
  /\ currentUserInfo' = s.currentUserInfo
  /\ currentUserPrefs' = s.currentUserPrefs
  /\ users' = s.users
  /\ usersFetchedAt' = s.usersFetchedAt
  /\ messages' = s.messages
  /\ chatProvider' = s.chatProvider
  /\ undef' = s.undef
  /\ globalState' = s.globalState
  /\ statusItem' = s.statusItem
  /\ pending' = s.pending
  /\ joins' = s.joins
  /\ calls' = s.calls
  /\ now' = s.now
  /\ ui' = s.ui
  /\ writes' = s.writes
  /\ sent' = s.sent
  /\ threw' = s.threw
  /\ op' = o

Throw(s) == [s EXCEPT !.threw = TRUE]

\* context.globalState.update(key, value): undefined removes the key
globalStateUpdate(s, key, value, isUndefined) ==
  [s EXCEPT
     !.globalState =
        IF isUndefined
        THEN [k \in DOMAIN s.globalState \ {key} |-> s.globalState[k]]
        ELSE (key :> value) @@ s.globalState,
     !.writes = @ \cup {key}]

(***************************************************************************)
(* Derived views                                                           *)
(***************************************************************************)
isAuthenticated(s) ==
  /\ "currentUserInfo" \notin s.undef
  /\ Truthy(Get(s.currentUserInfo, "id"))

isChannelMuted(s, channelId) == channelId \in s.currentUserPrefs

channelMessages(s, id) ==
  IF id \in DOMAIN s.messages THEN s.messages[id] ELSE EmptyObject

\* getUnreadCount reads this.currentUserInfo.id once per cached message
getUnreadCountThrows(s, channel) ==
  /\ ~isChannelMuted(s, Get(channel, "id"))
  /\ DOMAIN channelMessages(s, Get(channel, "id")) # {}
  /\ "currentUserInfo" \in s.undef

getUnreadCount_countsWithoutReadTimestamp(s, channel) ==
  LET id == Get(channel, "id")
      readTimestamp == Get(channel, "readTimestamp")
      unreadCount == Get(channel, "unreadCount")
      msgs == channelMessages(s, id)
      unreadMessages ==
        { ts \in DOMAIN msgs :
            /\ Get(msgs[ts], "userId") # Get(s.currentUserInfo, "id")
            /\ IF Truthy(readTimestamp) THEN ts > readTimestamp ELSE TRUE }
  IN  IF isChannelMuted(s, id) THEN 0
      ELSE IF unreadCount # undefined /\ unreadCount # 0 THEN unreadCount
      ELSE Cardinality(unreadMessages)

getUnreadCount(s, channel) ==
  LET id == Get(channel, "id")
      readTimestamp == Get(channel, "readTimestamp")
      unreadCount == Get(channel, "unreadCount")
      msgs == channelMessages(s, id)
      unreadMessages ==
        { ts \in DOMAIN msgs :
            /\ Get(msgs[ts], "userId") # Get(s.currentUserInfo, "id")
            /\ IF Truthy(readTimestamp) THEN ts > readTimestamp ELSE FALSE }
  IN  IF isChannelMuted(s, id) THEN 0
      ELSE IF unreadCount # undefined /\ unreadCount # 0 THEN unreadCount
      ELSE Cardinality(unreadMessages)

updateUnreadCount(s) ==
  IF s.threw THEN s
  ELSE IF "channels" \in s.undef THEN Throw(s)
  ELSE IF \E i \in 1..Len(s.channels) : getUnreadCountThrows(s, s.channels[i])
  THEN Throw(s)
  ELSE [s EXCEPT
          !.statusItem =
             SumSeq([i \in 1..Len(s.channels) |-> getUnreadCount(s, s.channels[i])]),
          !.ui = @ \cup {"unread"}]

\* getChannelLabels reads this.channels, and this.users for an im channel
getChannelLabelsThrows(s) ==
  \/ "channels" \in s.undef
  \/ /\ "users" \in s.undef
     /\ \E i \in 1..Len(s.channels) : Get(s.channels[i], "type") = "im"

\* the tree providers exist once initializeToken has run with a provider
updateTreeViews(s) ==
  IF s.threw THEN s
  ELSE IF ~isAuthenticated(s) THEN s
  ELSE IF getChannelLabelsThrows(s) THEN Throw(s)
  ELSE IF s.chatProvider = "none" THEN Throw(s)
  ELSE IF "users" \in s.undef THEN Throw([s EXCEPT !.ui = @ \cup {"trees"}])
  ELSE [s EXCEPT !.ui = @ \cup {"trees", "usersTree"}]

updateWebviewUI(s) ==
  IF s.threw THEN s
  ELSE IF "channels" \in s.undef THEN Throw(s)
  ELSE [s EXCEPT !.ui = @ \cup {"webview"}]

updateAllUI(s) == updateWebviewUI(updateTreeViews(updateUnreadCount(s)))

(***************************************************************************)
(* Collection setters                                                      *)
(***************************************************************************)
updateLastChannelId(s, channelId) ==
  IF s.threw THEN s
  ELSE globalStateUpdate([s EXCEPT !.lastChannelId = channelId],
                         stateKeys.LAST_CHANNEL_ID, channelId,
                         channelId = undefined)

updateUsers_alwaysPersists(s, newUsers) ==
  IF s.threw THEN s
  ELSE globalStateUpdate(
         [s EXCEPT !.users = newUsers, !.undef = @ \ {"users"}],
         stateKeys.USERS, newUsers, FALSE)

updateUsers(s, newUsers) ==
  IF s.threw THEN s
  ELSE LET t == [s EXCEPT !.users = newUsers, !.undef = @ \ {"users"}]
       IN  IF Cardinality(DOMAIN t.users) <= STORAGE_SIZE_LIMIT
           THEN globalStateUpdate(t, stateKeys.USERS, t.users, FALSE)
           ELSE t

updateUsersFetchedAt(s) ==
  IF s.threw THEN s ELSE [s EXCEPT !.usersFetchedAt = s.now]

updateChannelsFetchedAt(s) ==
  IF s.threw THEN s ELSE [s EXCEPT !.channelsFetchedAt = s.now]

updateChannels(s, newChannels) ==
  IF s.threw THEN s
  ELSE LET t == [s EXCEPT !.channels = newChannels, !.undef = @ \ {"channels"}]
       IN  IF Len(t.channels) <= STORAGE_SIZE_LIMIT
           THEN globalStateUpdate(t, stateKeys.CHANNELS, t.channels, FALSE)
           ELSE t

\* the array updateChannel hands to updateChannels
updatedChannels_alwaysAppends(chs, newChannel) == Append(chs, newChannel)

updatedChannels(chs, newChannel) ==
  LET found == \E i \in 1..Len(chs) : Get(chs[i], "id") = Get(newChannel, "id")
      mapped == [i \in 1..Len(chs) |->
                   IF Get(chs[i], "id") = Get(newChannel, "id")
                   THEN Spread(chs[i], newChannel)
                   ELSE chs[i]]
  IN  IF found THEN mapped ELSE Append(mapped, newChannel)

updateChannel(s, newChannel) ==
  IF s.threw THEN s
  ELSE IF "channels" \in s.undef THEN Throw(s)
  ELSE updateTreeViews(updateChannels(s, updatedChannels(s.channels, newChannel)))

(***************************************************************************)
(* Provider requests.  A request is answered by a later step; a group is   *)
(* the Promise.all that joins the requests of one fetchChannels or one     *)
(* fillUpUsers.                                                            *)
(***************************************************************************)
Request(kind, arg, group, caller) ==
  [kind |-> kind, arg |-> arg, group |-> group, caller |-> caller]

NoGroup == 0
NoCaller == 0

FreshGroup(s) == CHOOSE g \in 1..(Cardinality(DOMAIN s.joins) + 1) : g \notin DOMAIN s.joins

\* this.chatProvider.<method>(...): a TypeError when no provider is bound
callProvider(s, kind, arg, group, caller) ==
  IF s.threw THEN s
  ELSE IF s.chatProvider = "none" THEN Throw(s)
  ELSE [s EXCEPT !.pending = Append(@, Request(kind, arg, group, caller)),
                 !.sent = @ \cup {kind}]

RECURSIVE callProviderEach(_, _, _, _)
callProviderEach(s, kind, args, group) ==
  IF args = << >> THEN s
  ELSE callProviderEach(callProvider(s, kind, Head(args), group, NoCaller),
                        kind, Tail(args), group)

RECURSIVE SetToSeq(_)
SetToSeq(S) ==
  IF S = {} THEN << >>
  ELSE LET x == CHOOSE y \in S : \A z \in S : y <= z
       IN  << x >> \o SetToSeq(S \ {x})

(***************************************************************************)
(* fillUpUsers                                                             *)
(***************************************************************************)
\* the callback after Promise.all of fillUpUsers
fillUpUsersThen(s, usersCopy) ==
  IF s.threw THEN s
  ELSE updateWebviewUI([s EXCEPT !.users = usersCopy, !.undef = @ \ {"users"}])

fillUpUsers(s, missingIds) ==
  IF s.threw THEN s
  ELSE LET usersCopy == IF "users" \in s.undef THEN EmptyObject ELSE s.users
           g == FreshGroup(s)
           t == callProviderEach(s, "fetchUserInfo", SetToSeq(missingIds), g)
       IN  IF t.threw THEN t
           ELSE IF missingIds = {} THEN fillUpUsersThen(t, usersCopy)
           ELSE [t EXCEPT !.joins =
                   (g :> [kind |-> "fillUpUsers", remaining |-> Cardinality(missingIds),
                          failed |-> FALSE, usersCopy |-> usersCopy]) @@ @]

(***************************************************************************)
(* Messages                                                                *)
(***************************************************************************)
\* a payload entry whose value is undefined: the message was deleted
undefinedMessage == [deleted |-> TRUE]

Message(userId, reactions) ==
  [userId |-> userId, reactions |-> reactions, replies |-> EmptyObject]

\* the mapping updateMessages leaves for the channel
mergedMessages_keepsDeleted(old, newMessages) == Spread(old, newMessages)

mergedMessages(old, newMessages) ==
  LET channelMsgs == Spread(old, newMessages)
  IN  [ts \in {t \in DOMAIN channelMsgs : channelMsgs[t] # undefinedMessage}
         |-> channelMsgs[ts]]

updateMessages(s, channelId, newMessages) ==
  IF s.threw THEN s
  ELSE LET merged == mergedMessages(channelMessages(s, channelId), newMessages)
           t == [s EXCEPT !.messages = (channelId :> merged) @@ @]
           userIds == {Get(merged[ts], "userId") : ts \in DOMAIN merged}
       IN  IF "users" \in t.undef THEN Throw(t)
           ELSE IF ~(userIds \subseteq DOMAIN t.users)
                THEN updateAllUI(fillUpUsers(t, userIds \ DOMAIN t.users))
                ELSE updateAllUI(t)

(***************************************************************************)
(* Reactions                                                               *)
(***************************************************************************)
Reaction(name, userIds) ==
  [name |-> name, count |-> Len(userIds), userIds |-> userIds]

hasMessage(s, channelId, msgTimestamp) ==
  /\ channelId \in DOMAIN s.messages
  /\ msgTimestamp \in DOMAIN s.messages[channelId]

addedReactions(reactions, userId, reactionName) ==
  IF \E i \in 1..Len(reactions) : reactions[i].name = reactionName
  THEN LET first == CHOOSE i \in 1..Len(reactions) :
                      /\ reactions[i].name = reactionName
                      /\ \A j \in 1..(i - 1) : reactions[j].name # reactionName
           existing == reactions[first]
       IN  [i \in 1..Len(reactions) |->
              IF reactions[i].name = reactionName
              THEN [existing EXCEPT !.count = existing.count + 1,
                                    !.userIds = Append(existing.userIds, userId)]
              ELSE reactions[i]]
  ELSE Append(reactions, [name |-> reactionName, userIds |-> << userId >>, count |-> 1])

removedReactions(reactions, userId, reactionName) ==
  LET NotUser(u) == u # userId
      mapped == [i \in 1..Len(reactions) |->
                   IF reactions[i].name = reactionName
                   THEN [reactions[i] EXCEPT
                           !.count = @ - 1,
                           !.userIds = SelectSeq(@, NotUser)]
                   ELSE reactions[i]]
      Positive(r) == r.count > 0
  IN  SelectSeq(mapped, Positive)

addReaction(s, channelId, msgTimestamp, userId, reactionName) ==
  IF s.threw \/ ~hasMessage(s, channelId, msgTimestamp) THEN s
  ELSE LET message == s.messages[channelId][msgTimestamp]
           newMessage == [message EXCEPT
                            !.reactions = addedReactions(@, userId, reactionName)]
       IN  updateMessages(s, channelId, (msgTimestamp :> newMessage))

removeReaction(s, channelId, msgTimestamp, userId, reactionName) ==
  IF s.threw \/ ~hasMessage(s, channelId, msgTimestamp) THEN s
  ELSE LET message == s.messages[channelId][msgTimestamp]
           newMessage == [message EXCEPT
                            !.reactions = removedReactions(@, userId, reactionName)]
       IN  updateMessages(s, channelId, (msgTimestamp :> newMessage))

(***************************************************************************)
(* Construction                                                            *)
(***************************************************************************)
currentVersion == "0.6.0"

\* semver.lt(existingVersion, "0.6.0") for the versions the model persists
semverLt060(v) == v = "0.5.9"

Channel(id) == [id |-> id, name |-> id, type |-> "channel"]
IMChannel(id) == [id |-> id, name |-> id, type |-> "im"]
User(id) == [id |-> id, name |-> id]
OnlineUser(id, isOnline) == [id |-> id, name |-> id, isOnline |-> isOnline]

\* what an earlier session may have left in context.globalState
PersistedStates ==
  { EmptyObject,
    [channels |-> << Channel(1) >>, users |-> (1 :> User(1)) @@ (2 :> User(2)),
     userInfo |-> [id |-> 1, provider |-> "slack"], lastChannelId |-> 1,
     extensionVersion |-> currentVersion],
    [channels |-> << >>, users |-> EmptyObject, userInfo |-> [id |-> 1],
     extensionVersion |-> "0.5.9"] }

\* new Store(context)
Constructed(g) ==
  LET persistedInfo == IF "userInfo" \in DOMAIN g THEN g.userInfo ELSE EmptyObject
      existingVersion == IF "extensionVersion" \in DOMAIN g
                         THEN g.extensionVersion ELSE "none"
      migrate == /\ existingVersion # currentVersion
                 /\ existingVersion # "none"
                 /\ semverLt060(existingVersion)
                 /\ "userInfo" \in DOMAIN g
  IN
  /\ channels = IF "channels" \in DOMAIN g THEN g.channels ELSE << >>
  /\ currentUserInfo =
       IF migrate THEN Spread(persistedInfo, [provider |-> "slack"]) ELSE persistedInfo
  /\ users = IF "users" \in DOMAIN g THEN g.users ELSE EmptyObject
  /\ lastChannelId = IF "lastChannelId" \in DOMAIN g THEN g.lastChannelId ELSE undefined
  /\ undef = {"channels" : x \in {1} \ (IF "channels" \in DOMAIN g THEN {1} ELSE {})}
             \cup {"users" : x \in {1} \ (IF "users" \in DOMAIN g THEN {1} ELSE {})}
             \cup {"currentUserInfo" : x \in {1} \ (IF "userInfo" \in DOMAIN g THEN {1} ELSE {})}
  /\ globalState = ("extensionVersion" :> currentVersion) @@ g
  /\ channelsFetchedAt = undefined
  /\ usersFetchedAt = undefined
  /\ currentUserPrefs = {}
  /\ messages = EmptyObject
  /\ chatProvider = "none"
  /\ statusItem = undefined
  /\ pending = << >>
  /\ joins = EmptyObject
  /\ calls = << >>
  /\ now = 0
  /\ ui = {}
  /\ writes = {}
  /\ sent = {}
  /\ threw = FALSE
  /\ op = [name |-> "constructor", args |-> << >>]

Init == \E g \in PersistedStates : Constructed(g)

IsFetchUserInfo(r) == r.kind = "fetchUserInfo"

Fits(s) ==
  /\ Len(s.pending) <= MaxPending
  /\ Len(SelectSeq(s.pending, IsFetchUserInfo)) <= MaxFillUps

\* initializeToken(selectedProvider) with a provider name the switch knows
InitializeToken(selectedProvider) ==
  /\ chatProvider = "none"
  /\ selectedProvider \in {"slack", "discord"}
  /\ Commit([Store EXCEPT !.chatProvider = "bound"],
            [name |-> "initializeToken", args |-> << selectedProvider >>])

(***************************************************************************)
(* Steps: calls of the store's methods                                     *)
(***************************************************************************)
UpdateMessages(channelId, newMessages) ==
  LET s == updateMessages(Store, channelId, newMessages)
  IN  /\ Fits(s)
      /\ Commit(s, [name |-> "updateMessages", args |-> << channelId, newMessages >>])

\* the reaction is small enough for one more addReaction
ReactionBelow(channelId, msgTimestamp, reactionName, n) ==
  IF ~hasMessage(Store, channelId, msgTimestamp) THEN TRUE
  ELSE LET rs == messages[channelId][msgTimestamp].reactions
       IN  \A i \in 1..Len(rs) :
             rs[i].name = reactionName =>
               rs[i].count < n /\ Len(rs[i].userIds) < n

AddReaction(channelId, msgTimestamp, userId, reactionName) ==
  LET s == addReaction(Store, channelId, msgTimestamp, userId, reactionName)
  IN  /\ ReactionBelow(channelId, msgTimestamp, reactionName, MaxCount)
      /\ Fits(s)
      /\ Commit(s, [name |-> "addReaction",
                    args |-> << channelId, msgTimestamp, userId, reactionName >>])

RemoveReaction(channelId, msgTimestamp, userId, reactionName) ==
  LET s == removeReaction(Store, channelId, msgTimestamp, userId, reactionName)
  IN  /\ Fits(s)
      /\ Commit(s, [name |-> "removeReaction",
                    args |-> << channelId, msgTimestamp, userId, reactionName >>])

(***************************************************************************)
(* Steps: answers of the provider                                          *)
(***************************************************************************)
\* the store with request i taken off the outstanding ones
Answered(i) == [Store EXCEPT !.pending = RemoveAt(@, i)]

WithoutGroup(s, g) ==
  [s EXCEPT !.joins = [k \in DOMAIN s.joins \ {g} |-> s.joins[k]]]

\* fetchUserInfo(userId) resolves with the user: usersCopy[id] = user, and
\* the Promise.all of fillUpUsers resolves with the last of its requests
FetchUserInfoOk(i) ==
  /\ i \in 1..Len(pending)
  /\ pending[i].kind = "fetchUserInfo"
  /\ LET g == pending[i].group
         user == User(pending[i].arg)
         usersCopy == (user.id :> user) @@ joins[g].usersCopy
         left == joins[g].remaining - 1
         s == Answered(i)
         t == IF left > 0
              THEN [s EXCEPT !.joins[g].usersCopy = usersCopy,
                             !.joins[g].remaining = left]
              ELSE IF joins[g].failed THEN WithoutGroup(s, g)
              ELSE fillUpUsersThen(WithoutGroup(s, g), usersCopy)
     IN  Commit(t, [name |-> "fetchUserInfo.then",
                    args |-> << user.id, left = 0 /\ ~joins[g].failed >>])

\* fetchUserInfo(userId) rejects: the Promise.all rejects, nobody handles it
FetchUserInfoFail(i) ==
  /\ i \in 1..Len(pending)
  /\ pending[i].kind = "fetchUserInfo"
  /\ LET g == pending[i].group
         left == joins[g].remaining - 1
         s == Answered(i)
         t == IF left > 0
              THEN [s EXCEPT !.joins[g].failed = TRUE, !.joins[g].remaining = left]
              ELSE WithoutGroup(s, g)
     IN  Commit(t, [name |-> "fetchUserInfo.catch", args |-> << pending[i].arg >>])

(***************************************************************************)
(* Reactions: messages arrive with and without reactions, users add and    *)
(* remove reactions on tracked and untracked messages                      *)
(***************************************************************************)
ReactionPayloads ==
  { (100 :> Message(2, << >>)),
    (100 :> Message(2, << Reaction("r1", << 1 >>) >>)) }

NextReactions ==
  \/ \E p \in {"slack", "discord"} : InitializeToken(p)
  \/ \E m \in ReactionPayloads : UpdateMessages(1, m)
  \/ \E ts \in {100, 101}, u \in {1, 2}, r \in {"r1", "r2"} :
       AddReaction(1, ts, u, r)
  \/ \E ts \in {100, 101}, u \in {1, 2}, r \in {"r1", "r2"} :
       RemoveReaction(1, ts, u, r)
  \/ \E i \in 1..MaxPending : FetchUserInfoOk(i)
  \/ \E i \in 1..MaxPending : FetchUserInfoFail(i)

SpecReactions == Init /\ [][NextReactions]_vars

\* the store as the next handler finds it: the effects of the last one forgotten
Settled(s) == [s EXCEPT !.ui = {}, !.writes = {}, !.sent = {}, !.threw = FALSE]

reactionsOf(s, channelId, msgTimestamp) ==
  s.messages[channelId][msgTimestamp].reactions

\* C1: addReaction followed immediately by removeReaction with the same channel,
\* timestamp, user and reaction name leaves the message's reaction list (names,
\* counts, userIds) as it was before the add, whatever the list was, also when
\* the reaction already lists that user.
C1_AddThenRemoveRestores ==
  \A ts \in {100}, u \in {1, 2}, r \in {"r1", "r2"} :
    hasMessage(Store, 1, ts) =>
      LET added == addReaction(Store, 1, ts, u, r)
          removed == removeReaction(Settled(added), 1, ts, u, r)
      IN  reactionsOf(removed, 1, ts) = reactionsOf(Store, 1, ts)

(***************************************************************************)
(* Merges: messages and channels arrive from the provider                  *)
(***************************************************************************)
UpdateChannel(newChannel) ==
  LET s == updateChannel(Store, newChannel)
  IN  /\ Commit(s, [name |-> "updateChannel", args |-> << newChannel >>])

MergePayloads ==
  { (100 :> Message(2, << >>)),
    (100 :> undefinedMessage),
    (100 :> undefinedMessage) @@ (101 :> Message(1, << >>)),
    (101 :> Message(9, << >>)) }

MergeChannels ==
  { [id |-> 1, readTimestamp |-> 101],
    [id |-> 1, name |-> 1, unreadCount |-> 3],
    Channel(2),
    [id |-> 2, readTimestamp |-> 99] }

NextMerge ==
  \/ \E p \in {"slack", "discord"} : InitializeToken(p)
  \/ \E c \in {1, 2}, m \in MergePayloads : UpdateMessages(c, m)
  \/ \E i \in 1..MaxPending : FetchUserInfoOk(i)
  \/ \E i \in 1..MaxPending : FetchUserInfoFail(i)

SpecMerge == Init /\ [][NextMerge]_vars

\* the deleted timestamps of a payload
deletedIn(newMessages) ==
  {ts \in DOMAIN newMessages : newMessages[ts] = undefinedMessage}

sameEntry(old, new, ts) ==
  /\ ts \in DOMAIN old <=> ts \in DOMAIN new
  /\ ts \in DOMAIN old => old[ts] = new[ts]

NoSentinelStored ==
  \A c \in DOMAIN messages : \A ts \in DOMAIN messages[c] :
    messages[c][ts] # undefinedMessage

\* C7 as stated: after an updateMessages whose payload maps a timestamp to the
\* deleted sentinel, that timestamp is no key of the channel's mapping, every
\* other timestamp of the channel and every other channel's mapping is
\* unchanged, the same merge applied again changes nothing, and no stored
\* entry is ever the sentinel.
C7_DeleteLeavesAllOtherTimestamps ==
  /\ []NoSentinelStored
  /\ [][ (op'.name = "updateMessages" /\ deletedIn(op'.args[2]) # {}) =>
           LET c == op'.args[1]
               payload == op'.args[2]
               old == channelMessages(Store, c)
               new == messages'[c]
           IN  /\ \A ts \in deletedIn(payload) : ts \notin DOMAIN new
               /\ \A ts \in (DOMAIN old \cup DOMAIN new) \ deletedIn(payload) :
                    sameEntry(old, new, ts)
               /\ \A d \in (DOMAIN messages \cup DOMAIN messages') \ {c} :
                    d \in DOMAIN messages /\ d \in DOMAIN messages'
                    /\ messages'[d] = messages[d]
               /\ mergedMessages(new, payload) = new ]_vars

\* C7 amended: the timestamps the payload does not mention are unchanged, and
\* a timestamp the payload maps to a message holds that message; the rest as
\* stated.
C7_DeleteLeavesUnmentionedTimestamps ==
  /\ []NoSentinelStored
  /\ [][ (op'.name = "updateMessages" /\ deletedIn(op'.args[2]) # {}) =>
           LET c == op'.args[1]
               payload == op'.args[2]
               old == channelMessages(Store, c)
               new == messages'[c]
           IN  /\ \A ts \in deletedIn(payload) : ts \notin DOMAIN new
               /\ \A ts \in DOMAIN payload \ deletedIn(payload) :
                    ts \in DOMAIN new /\ new[ts] = payload[ts]
               /\ \A ts \in (DOMAIN old \cup DOMAIN new) \ DOMAIN payload :
                    sameEntry(old, new, ts)
               /\ \A d \in (DOMAIN messages \cup DOMAIN messages') \ {c} :
                    d \in DOMAIN messages /\ d \in DOMAIN messages'
                    /\ messages'[d] = messages[d]
               /\ mergedMessages(new, payload) = new ]_vars

\* a stored message was deleted by the last step, next to an untouched one
\* and an untouched channel
C7_Witness ==
  /\ op.name = "updateMessages"
  /\ op.args[1] = 1
  /\ op.args[2] = (100 :> undefinedMessage)
  /\ DOMAIN messages = {1, 2}
  /\ DOMAIN messages[1] = {101}
  /\ DOMAIN messages[2] = {100}

(***************************************************************************)
(* Channels: channel objects are merged while messages arrive              *)
(***************************************************************************)
UpdateChannels(newChannels) ==
  LET s == updateChannels(Store, newChannels)
  IN  /\ Commit(s, [name |-> "updateChannels", args |-> << newChannels >>])

UnreadPayloads == { (100 :> Message(2, << >>)), (100 :> Message(1, << >>)) }

NextChannels ==
  \/ \E m \in UnreadPayloads : UpdateMessages(1, m)
  \/ \E ch \in MergeChannels : UpdateChannel(ch)
  \/ \E chs \in { << >>, << Channel(1), [id |-> 1, readTimestamp |-> 99] >> } :
       UpdateChannels(chs)

SpecChannels == Init /\ [][NextChannels]_vars

\* the channel entries the scenario of C2 is about
scenarioChannel(i, readTimestamp) ==
  /\ "channels" \notin undef
  /\ i \in 1..Len(channels)
  /\ Get(channels[i], "id") = 1
  /\ ~isChannelMuted(Store, 1)
  /\ Get(channels[i], "readTimestamp") = readTimestamp
  /\ Get(channels[i], "unreadCount") = undefined
  /\ "currentUserInfo" \notin undef
  /\ DOMAIN channelMessages(Store, 1) = {100}
  /\ messages[1][100].userId # Get(currentUserInfo, "id")

\* C2 as stated: an unmuted channel with no readTimestamp and no unreadCount
\* whose only message, at 100, is by another user has 1 unread; with
\* readTimestamp 101 it has 0.
C2_OneUnreadWithoutReadTimestamp ==
  \A i \in 1..Len(channels) :
    /\ scenarioChannel(i, undefined) => getUnreadCount(Store, channels[i]) = 1
    /\ scenarioChannel(i, 101) => getUnreadCount(Store, channels[i]) = 0

\* C2 amended: without a readTimestamp no message counts, so the count is 0
\* before the read marker is set as well as after.
C2_NoUnreadWithoutReadTimestamp ==
  \A i \in 1..Len(channels) :
    /\ scenarioChannel(i, undefined) => getUnreadCount(Store, channels[i]) = 0
    /\ scenarioChannel(i, 101) => getUnreadCount(Store, channels[i]) = 0

C2_Witness ==
  /\ op.name = "updateMessages"
  /\ \E i \in 1..Len(channels) : scenarioChannel(i, undefined)

\* C6: updateChannel(c) applied a second time leaves the channel collection
\* as the first application left it (length, order, fields).
C6_UpdateChannelIdempotent ==
  op.name = "updateChannel" =>
    LET again == updateChannel(Store, op.args[1])
    IN  again.channels = channels /\ again.undef = undef

\* the last step merged a channel into an existing entry with other fields
C6_Witness ==
  /\ op.name = "updateChannel"
  /\ op.args[1] = [id |-> 1, readTimestamp |-> 101]
  /\ ~threw
  /\ Len(channels) = 2
  /\ channels[1] = [id |-> 1, name |-> 1, type |-> "channel", readTimestamp |-> 101]
  /\ channels[2] = [id |-> 1, readTimestamp |-> 101]

(***************************************************************************)
(* Fetching and caching users and channels                                 *)
(***************************************************************************)
\* fetchUsers(): the request; caller is the promise of a get*Promise caller
\* that was handed this fetch, NoCaller when nobody holds it
fetchUsers(s, caller) == callProvider(s, "fetchUsers", undefined, NoGroup, caller)

fetchChannels(s, caller) == callProvider(s, "fetchChannels", undefined, NoGroup, caller)

\* usersWithPresence of the fetchUsers callback; an isOnline that comes out
\* undefined is a key the model leaves out
usersWithPresence(s, newUsers) ==
  [userId \in DOMAIN newUsers |->
     LET newUser == newUsers[userId]
         existing == IF userId \in DOMAIN s.users THEN s.users[userId] ELSE EmptyObject
     IN  IF "isOnline" \in DOMAIN newUser THEN newUser
         ELSE IF userId \notin DOMAIN s.users
              THEN Spread(newUser, [isOnline |-> FALSE])
         ELSE IF "isOnline" \in DOMAIN existing
              THEN Spread(newUser, [isOnline |-> existing.isOnline])
         ELSE newUser]

\* the .then callback of fetchUsers
fetchUsersThen(s, newUsers) ==
  IF s.threw THEN s
  ELSE IF DOMAIN newUsers # {} /\ "users" \in s.undef THEN Throw(s)
  ELSE updateUsersFetchedAt(updateUsers(s, usersWithPresence(s, newUsers)))

\* the recount after Promise.all of the channel info fetches
fetchChannelsJoined_noRecount(s) == s

fetchChannelsJoined(s) == updateUnreadCount(s)

\* the .then callback of fetchChannels
fetchChannelsThen(s, newChannels) ==
  LET t == updateTreeViews(updateChannelsFetchedAt(updateChannels(s, newChannels)))
      g == FreshGroup(t)
      ids == [i \in 1..Len(newChannels) |-> Get(newChannels[i], "id")]
      u == callProviderEach(t, "fetchChannelInfo", ids, g)
  IN  IF u.threw THEN u
      ELSE IF newChannels = << >> THEN fetchChannelsJoined(u)
      ELSE [u EXCEPT !.joins =
              (g :> [kind |-> "fetchChannels", remaining |-> Len(newChannels),
                     failed |-> FALSE, usersCopy |-> EmptyObject]) @@ @]

shouldFetchNew(s, lastFetchedAt) ==
  IF ~Truthy(lastFetchedAt) THEN TRUE
  ELSE s.now - lastFetchedAt > FETCH_THRESHOLD

Call(fn, outcome, value, cached) ==
  [fn |-> fn, outcome |-> outcome, value |-> value, cached |-> cached]

\* getUsersPromise(): the promise the caller gets is the last entry of calls
getUsersPromise(s) ==
  LET me == Len(s.calls) + 1
  IN  IF "users" \in s.undef
      THEN Throw([s EXCEPT !.calls = Append(@, Call("getUsersPromise", "threw", << >>, FALSE))])
      ELSE IF DOMAIN s.users # {}
      THEN LET t == IF shouldFetchNew(s, s.usersFetchedAt)
                    THEN fetchUsers(s, NoCaller) ELSE s
           IN  IF t.threw
               THEN [t EXCEPT !.threw = FALSE,
                              !.calls = Append(@, Call("getUsersPromise", "rejected", << >>, TRUE))]
               ELSE [t EXCEPT !.calls = Append(@, Call("getUsersPromise", "resolved", s.users, TRUE))]
      ELSE LET t == fetchUsers(s, me)
           IN  IF t.threw
               THEN [t EXCEPT !.calls = Append(@, Call("getUsersPromise", "threw", << >>, FALSE))]
               ELSE [t EXCEPT !.calls = Append(@, Call("getUsersPromise", "pending", << >>, FALSE))]

getChannelsPromise(s) ==
  LET me == Len(s.calls) + 1
  IN  IF "channels" \notin s.undef
      THEN LET t == IF shouldFetchNew(s, s.channelsFetchedAt)
                    THEN fetchChannels(s, NoCaller) ELSE s
           IN  IF t.threw
               THEN [t EXCEPT !.threw = FALSE,
                              !.calls = Append(@, Call("getChannelsPromise", "rejected", << >>, TRUE))]
               ELSE [t EXCEPT !.calls = Append(@, Call("getChannelsPromise", "resolved", s.channels, TRUE))]
      ELSE LET t == fetchChannels(s, me)
           IN  IF t.threw
               THEN [t EXCEPT !.calls = Append(@, Call("getChannelsPromise", "threw", << >>, FALSE))]
               ELSE [t EXCEPT !.calls = Append(@, Call("getChannelsPromise", "pending", << >>, FALSE))]

\* the promise of caller settles
settle(s, caller, outcome, value) ==
  IF caller = NoCaller THEN s
  ELSE [s EXCEPT !.calls[caller].outcome = outcome, !.calls[caller].value = value]

clearOldWorkspace_keepsMessages(s) ==
  LET t == updateUsers(updateChannels(updateLastChannelId(s, undefined), << >>),
                       EmptyObject)
      u == [t EXCEPT !.usersFetchedAt = undefined, !.channelsFetchedAt = undefined]
  IN  IF u.chatProvider # "none" THEN [u EXCEPT !.sent = @ \cup {"destroy"}] ELSE u

clearOldWorkspace(s) ==
  LET t == updateUsers(updateChannels(updateLastChannelId(s, undefined), << >>),
                       EmptyObject)
      u == [t EXCEPT !.usersFetchedAt = undefined, !.channelsFetchedAt = undefined,
                     !.messages = EmptyObject]
  IN  IF u.chatProvider # "none" THEN [u EXCEPT !.sent = @ \cup {"destroy"}] ELSE u

(***************************************************************************)
(* Steps of fetching and caching                                           *)
(***************************************************************************)
GetUsersPromise ==
  LET s == getUsersPromise(Store)
  IN  /\ Len(calls) < MaxCalls
      /\ Fits(s)
      /\ Commit(s, [name |-> "getUsersPromise", args |-> << >>])

GetChannelsPromise ==
  LET s == getChannelsPromise(Store)
  IN  /\ Len(calls) < MaxCalls
      /\ Fits(s)
      /\ Commit(s, [name |-> "getChannelsPromise", args |-> << >>])

\* the provider answers fetchUsers with newUsers; a throw in the callback
\* rejects the promise the caller holds
FetchUsersOk(i, newUsers) ==
  /\ i \in 1..Len(pending)
  /\ pending[i].kind = "fetchUsers"
  /\ LET caller == pending[i].caller
         s == fetchUsersThen(Answered(i), newUsers)
         t == IF s.threw THEN settle(s, caller, "rejected", << >>)
              ELSE settle(s, caller, "resolved", newUsers)
     IN  Commit(t, [name |-> "fetchUsers.then", args |-> << caller, newUsers >>])

FetchUsersFail(i) ==
  /\ i \in 1..Len(pending)
  /\ pending[i].kind = "fetchUsers"
  /\ LET caller == pending[i].caller
     IN  Commit(settle(Answered(i), caller, "rejected", << >>),
                [name |-> "fetchUsers.catch", args |-> << caller >>])

FetchChannelsOk(i, newChannels) ==
  /\ i \in 1..Len(pending)
  /\ pending[i].kind = "fetchChannels"
  /\ LET caller == pending[i].caller
         s == fetchChannelsThen(Answered(i), newChannels)
         t == IF s.threw THEN settle(s, caller, "rejected", << >>)
              ELSE settle(s, caller, "resolved", newChannels)
     IN  /\ Fits(t)
         /\ Commit(t, [name |-> "fetchChannels.then", args |-> << caller, newChannels >>])

FetchChannelsFail(i) ==
  /\ i \in 1..Len(pending)
  /\ pending[i].kind = "fetchChannels"
  /\ LET caller == pending[i].caller
     IN  Commit(settle(Answered(i), caller, "rejected", << >>),
                [name |-> "fetchChannels.catch", args |-> << caller >>])

\* what fetchChannelInfo may answer for a channel
ChannelInfos(id) == { [id |-> id, unreadCount |-> 2] }

\* fetchChannelInfo resolves: updateChannel(newChannel); the recount follows
\* the last answer of the group when none of them failed
FetchChannelInfoOk(i, newChannel) ==
  /\ i \in 1..Len(pending)
  /\ pending[i].kind = "fetchChannelInfo"
  /\ Get(newChannel, "id") = pending[i].arg
  /\ LET g == pending[i].group
         left == joins[g].remaining - 1
         s == updateChannel(Answered(i), newChannel)
         failed == joins[g].failed \/ s.threw
         t == IF left > 0
              THEN [s EXCEPT !.joins[g].failed = failed, !.joins[g].remaining = left]
              ELSE IF failed THEN WithoutGroup(s, g)
              ELSE fetchChannelsJoined(WithoutGroup(s, g))
     IN  Commit(t, [name |-> "fetchChannelInfo.then",
                    args |-> << newChannel, left = 0 /\ ~failed >>])

FetchChannelInfoFail(i) ==
  /\ i \in 1..Len(pending)
  /\ pending[i].kind = "fetchChannelInfo"
  /\ LET g == pending[i].group
         left == joins[g].remaining - 1
         s == Answered(i)
         t == IF left > 0
              THEN [s EXCEPT !.joins[g].failed = TRUE, !.joins[g].remaining = left]
              ELSE WithoutGroup(s, g)
     IN  Commit(t, [name |-> "fetchChannelInfo.catch", args |-> << pending[i].arg >>])

ClearOldWorkspace ==
  LET s == clearOldWorkspace(Store)
  IN  /\ Commit(s, [name |-> "clearOldWorkspace", args |-> << >>])

\* time passes
TickMs == FETCH_THRESHOLD

Tick ==
  /\ now < MaxTicks * TickMs
  /\ Commit([Store EXCEPT !.now = @ + TickMs],
            [name |-> "tick", args |-> << >>])

UsersPayloads == { EmptyObject, (1 :> User(1)) }

ChannelsPayloads == { << >>, << Channel(2) >> }

NextCache ==
  \/ \E p \in {"slack", "discord"} : InitializeToken(p)
  \/ GetUsersPromise
  \/ GetChannelsPromise
  \/ \E i \in 1..MaxPending, u \in UsersPayloads : FetchUsersOk(i, u)
  \/ \E i \in 1..MaxPending : FetchUsersFail(i)
  \/ \E i \in 1..MaxPending, chs \in ChannelsPayloads : FetchChannelsOk(i, chs)
  \/ \E i \in 1..MaxPending : FetchChannelsFail(i)
  \/ \E i \in 1..MaxPending, ch \in ChannelInfos(1) \cup ChannelInfos(2) :
       FetchChannelInfoOk(i, ch)
  \/ \E i \in 1..MaxPending : FetchChannelInfoFail(i)
  \/ ClearOldWorkspace
  \/ Tick

SpecCache == Init /\ [][NextCache]_vars

lastCall == calls[Len(calls)]

\* C3: a getUsersPromise or getChannelsPromise that finds its cached collection
\* empty (nothing persisted, or cleared) hands the caller a fetch it issues
\* itself: the promise is pending until the provider answers.
C3_EmptyCacheAwaitsFetch ==
  [][ /\ ( /\ op'.name = "getUsersPromise"
           /\ chatProvider = "bound"
           /\ DOMAIN users = {} )
         => /\ lastCall'.outcome = "pending"
            /\ pending' = Append(pending, Request("fetchUsers", undefined, NoGroup, Len(calls')))
      /\ ( /\ op'.name = "getChannelsPromise"
           /\ chatProvider = "bound"
           /\ channels = << >> )
         => /\ lastCall'.outcome = "pending"
            /\ pending' = Append(pending, Request("fetchChannels", undefined, NoGroup, Len(calls')))
    ]_vars

\* the staleness rule: no fetch yet, or the last one more than 15 minutes ago
StaleAt(lastFetchedAt) ==
  lastFetchedAt = undefined \/ now - lastFetchedAt > 15 * 60 * 1000

\* C4: a getUsersPromise or getChannelsPromise that finds a
\* non-empty cached collection resolves at once with that collection, whether
\* or not a provider is bound; it starts a fetch nobody awaits exactly when the
\* collection is stale; and the failure of such a fetch changes no promise
\* handed out and no collection.
C4_CachedResolvesWhenever ==
  [][ /\ ( /\ op'.name = "getUsersPromise"
           /\ "users" \notin undef
           /\ DOMAIN users # {} )
         => /\ lastCall' = Call("getUsersPromise", "resolved", users, TRUE)
            /\ (chatProvider = "bound") =>
                 pending' = IF StaleAt(usersFetchedAt)
                            THEN Append(pending, Request("fetchUsers", undefined, NoGroup, NoCaller))
                            ELSE pending
      /\ ( /\ op'.name = "getChannelsPromise"
           /\ "channels" \notin undef
           /\ channels # << >> )
         => /\ lastCall' = Call("getChannelsPromise", "resolved", channels, TRUE)
            /\ (chatProvider = "bound") =>
                 pending' = IF StaleAt(channelsFetchedAt)
                            THEN Append(pending, Request("fetchChannels", undefined, NoGroup, NoCaller))
                            ELSE pending
      /\ ( /\ op'.name \in {"fetchUsers.catch", "fetchChannels.catch"}
           /\ op'.args[1] = NoCaller )
         => /\ calls' = calls
            /\ users' = users
            /\ channels' = channels
            /\ ~threw'
    ]_vars

\* C4 restricted to a store with a provider bound: there the cached collection
\* is the answer, the fetch behind it is started exactly when the collection
\* is stale, and its failure changes no promise handed out and no collection.
C4_CachedResolvesImmediately ==
  [][ /\ ( /\ op'.name = "getUsersPromise"
           /\ chatProvider = "bound"
           /\ "users" \notin undef
           /\ DOMAIN users # {} )
         => /\ lastCall' = Call("getUsersPromise", "resolved", users, TRUE)
            /\ pending' = IF StaleAt(usersFetchedAt)
                          THEN Append(pending, Request("fetchUsers", undefined, NoGroup, NoCaller))
                          ELSE pending
      /\ ( /\ op'.name = "getChannelsPromise"
           /\ chatProvider = "bound"
           /\ "channels" \notin undef
           /\ channels # << >> )
         => /\ lastCall' = Call("getChannelsPromise", "resolved", channels, TRUE)
            /\ pending' = IF StaleAt(channelsFetchedAt)
                          THEN Append(pending, Request("fetchChannels", undefined, NoGroup, NoCaller))
                          ELSE pending
      /\ ( /\ op'.name \in {"fetchUsers.catch", "fetchChannels.catch"}
           /\ op'.args[1] = NoCaller )
         => /\ calls' = calls
            /\ users' = users
            /\ channels' = channels
            /\ ~threw'
    ]_vars

\* C5: when a fetch that getUsersPromise or getChannelsPromise started behind
\* a cached answer succeeds, the collection holds the fetched entries and the
\* step has notified the UI, for users as for channels (the store being
\* authenticated, so that the tree views take updates).
C5_BackgroundRefetchRefreshesUI ==
  [][ /\ ( /\ op'.name = "fetchUsers.then"
           /\ op'.args[1] = NoCaller
           /\ isAuthenticated(Store) )
         => /\ DOMAIN users' = DOMAIN op'.args[2]
            /\ ui' # {}
      /\ ( /\ op'.name = "fetchChannels.then"
           /\ op'.args[1] = NoCaller
           /\ isAuthenticated(Store) )
         => /\ channels' = op'.args[2]
            /\ ui' # {}
    ]_vars

(***************************************************************************)
(* Clearing a workspace that has data and requests in flight               *)
(***************************************************************************)
NextClear ==
  \/ \E p \in {"slack", "discord"} : InitializeToken(p)
  \/ UpdateMessages(1, (100 :> Message(2, << >>)))
  \/ UpdateChannel([id |-> 1, readTimestamp |-> 101])
  \/ GetUsersPromise
  \/ \E i \in 1..MaxPending, u \in UsersPayloads : FetchUsersOk(i, u)
  \/ \E i \in 1..MaxPending : FetchUserInfoOk(i)
  \/ ClearOldWorkspace

SpecClear == Init /\ [][NextClear]_vars

\* C10: after clearOldWorkspace lastChannelId is unset, channels is an empty
\* list, users and messages are empty mappings, both fetch timestamps are
\* unset, destroy was called on the provider if one is bound, and
\* currentUserInfo is what it was.
C10_ClearOldWorkspace ==
  [][ op'.name = "clearOldWorkspace" =>
        /\ lastChannelId' = undefined
        /\ channels' = << >> /\ "channels" \notin undef'
        /\ users' = EmptyObject /\ "users" \notin undef'
        /\ messages' = EmptyObject
        /\ usersFetchedAt' = undefined
        /\ channelsFetchedAt' = undefined
        /\ "destroy" \in sent' <=> chatProvider = "bound"
        /\ currentUserInfo' = currentUserInfo
        /\ "currentUserInfo" \in undef' <=> "currentUserInfo" \in undef
    ]_vars

\* a workspace was cleared with a provider bound, an identity recorded and a
\* fetch of the old workspace still in flight
C10_Witness ==
  /\ op.name = "clearOldWorkspace"
  /\ "destroy" \in sent
  /\ isAuthenticated(Store)
  /\ writes = {"lastChannelId", "channels", "users"}
  /\ pending # << >>
  /\ messages = EmptyObject

(***************************************************************************)
(* Persistence of small and large collections                              *)
(***************************************************************************)
UpdateUsers(newUsers) ==
  LET s == updateUsers(Store, newUsers)
  IN  /\ Commit(s, [name |-> "updateUsers", args |-> << newUsers >>])

UsersOfSize(n) == [id \in 1..n |-> User(id)]
ChannelsOfSize(n) == [i \in 1..n |-> Channel(i)]

\* sizes around the storage limit, and the 150 of the large community
CollectionSizes == {0, 2, STORAGE_SIZE_LIMIT - 1, STORAGE_SIZE_LIMIT,
                    STORAGE_SIZE_LIMIT + 1, STORAGE_SIZE_LIMIT + 50}

NextPersist ==
  \/ \E n \in CollectionSizes : UpdateUsers(UsersOfSize(n))
  \/ \E n \in CollectionSizes : UpdateChannels(ChannelsOfSize(n))
  \/ \E id \in {1, STORAGE_SIZE_LIMIT + 1} : UpdateChannel([id |-> id, unreadCount |-> 2])
  \/ ClearOldWorkspace

SpecPersist == Init /\ [][NextPersist]_vars

samePersisted(key) ==
  /\ key \in DOMAIN globalState' <=> key \in DOMAIN globalState
  /\ key \in DOMAIN globalState => globalState'[key] = globalState[key]

\* C8: updateUsers and updateChannels make the argument the in-memory
\* collection whatever its size, and write the collection's key exactly when
\* the collection has at most 100 entries; above that no write for the key is
\* issued and the persisted copy stays what it was.
C8_PersistOnlyUpTo100 ==
  [][ /\ op'.name = "updateUsers" =>
           /\ users' = op'.args[1] /\ "users" \notin undef'
           /\ "users" \in writes' <=> Cardinality(DOMAIN op'.args[1]) <= 100
           /\ "users" \in writes' => globalState'["users"] = op'.args[1]
           /\ "users" \notin writes' => samePersisted("users")
      /\ op'.name = "updateChannels" =>
           /\ channels' = op'.args[1] /\ "channels" \notin undef'
           /\ "channels" \in writes' <=> Len(op'.args[1]) <= 100
           /\ "channels" \in writes' => globalState'["channels"] = op'.args[1]
           /\ "channels" \notin writes' => samePersisted("channels")
      /\ (op'.name \in {"updateChannel", "clearOldWorkspace"} /\ ~threw') =>
           /\ "channels" \in writes' <=> Len(channels') <= 100
           /\ "channels" \in writes' => globalState'["channels"] = channels'
           /\ "channels" \notin writes' => samePersisted("channels")
    ]_vars

\* 150 users are in memory, the persisted users are the 100 of an earlier call
C8_Witness ==
  /\ op.name = "updateUsers"
  /\ Cardinality(DOMAIN users) = 150
  /\ "users" \notin writes
  /\ "users" \in DOMAIN globalState
  /\ Cardinality(DOMAIN globalState["users"]) = 100

(***************************************************************************)
(* Filling up users that messages refer to                                 *)
(***************************************************************************)
FillUpUsers(missingIds) ==
  LET s == fillUpUsers(Store, missingIds)
  IN  /\ Fits(s)
      /\ Commit(s, [name |-> "fillUpUsers", args |-> << missingIds >>])

NextFillUp ==
  \/ \E p \in {"slack", "discord"} : InitializeToken(p)
  \/ \E ids \in {{}, {9}, {2, 9}} : FillUpUsers(ids)
  \/ \E i \in 1..MaxPending : FetchUserInfoOk(i)
  \/ \E i \in 1..MaxPending : FetchUserInfoFail(i)
  \/ GetUsersPromise
  \/ \E i \in 1..MaxPending, u \in UsersPayloads : FetchUsersOk(i, u)
  \/ ClearOldWorkspace
  \/ Tick

SpecFillUp == Init /\ [][NextFillUp]_vars

\* C9: when a fillUpUsers completes with every fetchUserInfo succeeded, the
\* user cache holds each fetched user under its id, the UI was refreshed,
\* usersFetchedAt is untouched and no write of the users key was issued.
C9_FillUpUsersCompletes ==
  [][ ( \/ (op'.name = "fetchUserInfo.then" /\ op'.args[2])
        \/ (op'.name = "fillUpUsers" /\ op'.args[1] = {} /\ chatProvider = "bound") )
      => /\ op'.name = "fetchUserInfo.then" =>
              /\ op'.args[1] \in DOMAIN users'
              /\ users'[op'.args[1]].id = op'.args[1]
         /\ "users" \notin undef'
         /\ "webview" \in ui'
         /\ usersFetchedAt' = usersFetchedAt
         /\ "users" \notin writes'
    ]_vars

(***************************************************************************)
(* The current user: identities arrive from the provider and from the      *)
(* workspace picker                                                        *)
(***************************************************************************)
\* the argument of updateCurrentUser(undefined)
undefinedUserInfo == [isUndefined |-> TRUE]

teamOf(s) ==
  IF "currentUserInfo" \in s.undef THEN undefined
  ELSE Get(s.currentUserInfo, "currentTeamId")

\* the identity updateCurrentUser stores for a userInfo that is an object
mergedUserInfo_forgetsTeam(s, userInfo) ==
  Spread(userInfo, [currentTeamId |-> Get(userInfo, "currentTeamId")])

mergedUserInfo(s, userInfo) ==
  LET previous == teamOf(s)
      currentTeamId == IF Truthy(Get(userInfo, "currentTeamId"))
                       THEN userInfo.currentTeamId ELSE previous
  IN  Spread(userInfo, [currentTeamId |-> currentTeamId])

updateCurrentUser(s, userInfo) ==
  IF s.threw THEN s
  ELSE IF userInfo = undefinedUserInfo
  THEN globalStateUpdate(
         [s EXCEPT !.currentUserInfo = EmptyObject, !.undef = @ \cup {"currentUserInfo"}],
         stateKeys.USER_INFO, EmptyObject, TRUE)
  ELSE LET info == mergedUserInfo(s, userInfo)
       IN  globalStateUpdate(
             [s EXCEPT !.currentUserInfo = info, !.undef = @ \ {"currentUserInfo"}],
             stateKeys.USER_INFO, info, FALSE)

updateCurrentWorkspace(s, team) ==
  LET current == IF "currentUserInfo" \in s.undef THEN EmptyObject ELSE s.currentUserInfo
  IN  updateCurrentUser(s, Spread(current, [currentTeamId |-> Get(team, "id")]))

\* initializeProvider up to its await: isConnected is what the provider reports
initializeProvider(s, isConnected) ==
  IF s.threw THEN s
  ELSE IF s.chatProvider = "none" THEN Throw(s)
  ELSE IF ~(isConnected /\ isAuthenticated(s))
  THEN callProvider(s, "connect", undefined, NoGroup, NoCaller)
  ELSE s

clearAll(s) == clearOldWorkspace(updateCurrentUser(s, undefinedUserInfo))

UpdateCurrentUser(userInfo) ==
  LET s == updateCurrentUser(Store, userInfo)
  IN  /\ Commit(s, [name |-> "updateCurrentUser", args |-> << userInfo >>])

UpdateCurrentWorkspace(team) ==
  LET s == updateCurrentWorkspace(Store, team)
  IN  /\ Commit(s, [name |-> "updateCurrentWorkspace", args |-> << team >>])

InitializeProvider(isConnected) ==
  LET s == initializeProvider(Store, isConnected)
  IN  /\ Fits(s)
      /\ Commit(s, [name |-> "initializeProvider", args |-> << isConnected >>])

\* chatProvider.connect() resolves with currentUser
ConnectOk(i, currentUser) ==
  /\ i \in 1..Len(pending)
  /\ pending[i].kind = "connect"
  /\ Commit(updateCurrentUser(Answered(i), currentUser),
            [name |-> "connect.then", args |-> << currentUser >>])

ConnectFail(i) ==
  /\ i \in 1..Len(pending)
  /\ pending[i].kind = "connect"
  /\ Commit(Answered(i), [name |-> "connect.catch", args |-> << >>])

ClearAll ==
  LET s == clearAll(Store)
  IN  /\ Commit(s, [name |-> "clearAll", args |-> << >>])

\* identities with and without a team
UserInfos ==
  { [id |-> 1, provider |-> "slack"],
    [id |-> 1, provider |-> "discord", currentTeamId |-> 7],
    [id |-> 2, provider |-> "discord", currentTeamId |-> 8] }

Teams == { [id |-> 7], [id |-> 9] }

NextIdentity ==
  \/ \E p \in {"slack", "discord"} : InitializeToken(p)
  \/ \E u \in UserInfos \cup {undefinedUserInfo} : UpdateCurrentUser(u)
  \/ \E team \in Teams : UpdateCurrentWorkspace(team)
  \/ \E c \in BOOLEAN : InitializeProvider(c)
  \/ \E i \in 1..MaxPending, u \in UserInfos : ConnectOk(i, u)
  \/ \E i \in 1..MaxPending : ConnectFail(i)
  \/ ClearAll

SpecIdentity == Init /\ [][NextIdentity]_vars

\* the currentTeamId the identity of a step carries, if any
carriedTeam(o) ==
  IF o.name = "updateCurrentWorkspace" THEN Get(o.args[1], "id")
  ELSE IF o.name \in {"updateCurrentUser", "connect.then"}
  THEN Get(o.args[1], "currentTeamId")
  ELSE undefined

\* a sign-out: clearAll, or the reset of the identity that clearAll makes
signsOut(o) ==
  \/ o.name = "clearAll"
  \/ o.name = "updateCurrentUser" /\ o.args[1] = undefinedUserInfo

\* C11: short of a sign-out, a currentTeamId once recorded never becomes
\* unset: a step whose identity carries no currentTeamId keeps the previous
\* one, and a step whose identity carries one replaces it.
C11_TeamIdKept ==
  [][ ~signsOut(op') =>
        /\ teamOf(Store) # undefined => teamOf(Store)' # undefined
        /\ op'.name \in {"updateCurrentUser", "updateCurrentWorkspace", "connect.then"} =>
             teamOf(Store)' = IF carriedTeam(op') # undefined
                              THEN carriedTeam(op') ELSE teamOf(Store)
    ]_vars

\* the provider has answered connect with an identity without a team, and
\* the team recorded before is still there
C11_Witness ==
  /\ op.name = "connect.then"
  /\ op.args[1] = [id |-> 1, provider |-> "slack"]
  /\ currentUserInfo = [id |-> 1, provider |-> "slack", currentTeamId |-> 9]

(***************************************************************************)
(* Channel history                                                         *)
(***************************************************************************)
\* loadChannelHistory(channelId) up to the provider call; the promise it
\* returns is the last entry of calls
loadChannelHistory(s, channelId) ==
  LET me == Len(s.calls) + 1
      t == callProvider(s, "loadChannelHistory", channelId, NoGroup, me)
  IN  IF t.threw
      THEN [t EXCEPT !.calls = Append(@, Call("loadChannelHistory", "threw", << >>, FALSE))]
      ELSE [t EXCEPT !.calls = Append(@, Call("loadChannelHistory", "pending", << >>, FALSE))]

\* .catch(error => console.error(error)): the error is logged, the promise of
\* the caller resolves
loadChannelHistoryCatch_rethrows(s, caller) ==
  settle(Throw(s), caller, "rejected", << >>)

loadChannelHistoryCatch(s, caller) ==
  settle([s EXCEPT !.threw = FALSE], caller, "resolved", << >>)

\* .then(messages => this.updateMessages(channelId, messages)), its throw caught
loadChannelHistoryThen(s, channelId, newMessages, caller) ==
  LET t == updateMessages(s, channelId, newMessages)
  IN  IF t.threw THEN loadChannelHistoryCatch(t, caller)
      ELSE settle(t, caller, "resolved", << >>)

LoadChannelHistory(channelId) ==
  LET s == loadChannelHistory(Store, channelId)
  IN  /\ Len(calls) < MaxCalls
      /\ Fits(s)
      /\ Commit(s, [name |-> "loadChannelHistory", args |-> << channelId >>])

LoadChannelHistoryOk(i, newMessages) ==
  /\ i \in 1..Len(pending)
  /\ pending[i].kind = "loadChannelHistory"
  /\ LET s == loadChannelHistoryThen(Answered(i), pending[i].arg, newMessages,
                                     pending[i].caller)
     IN  /\ Fits(s)
         /\ Commit(s, [name |-> "loadChannelHistory.then",
                       args |-> << pending[i].caller, pending[i].arg, newMessages >>])

LoadChannelHistoryFail(i) ==
  /\ i \in 1..Len(pending)
  /\ pending[i].kind = "loadChannelHistory"
  /\ Commit(loadChannelHistoryCatch(Answered(i), pending[i].caller),
            [name |-> "loadChannelHistory.catch",
             args |-> << pending[i].caller, pending[i].arg >>])

HistoryPayloads ==
  { (100 :> Message(2, << >>)),
    (100 :> Message(1, << >>)) @@ (101 :> Message(9, << >>)) }

NextHistory ==
  \/ \E p \in {"slack", "discord"} : InitializeToken(p)
  \/ \E c \in {1, 2} : LoadChannelHistory(c)
  \/ \E i \in 1..MaxPending, m \in HistoryPayloads : LoadChannelHistoryOk(i, m)
  \/ \E i \in 1..MaxPending : LoadChannelHistoryFail(i)
  \/ \E i \in 1..MaxPending : FetchUserInfoOk(i)

SpecHistory == Init /\ [][NextHistory]_vars

\* C12: when the provider's loadChannelHistory fails, the promise the store
\* returned resolves, messages, channels and users are what they were, and a
\* history that arrives for a channel is merged whatever failed before it.
C12_HistoryFailureIsCaught ==
  [][ /\ op'.name = "loadChannelHistory.catch" =>
           /\ calls'[op'.args[1]].outcome = "resolved"
           /\ \A k \in 1..Len(calls) : k # op'.args[1] => calls'[k] = calls[k]
           /\ messages' = messages
           /\ channels' = channels
           /\ users' = users
           /\ undef' = undef
           /\ ~threw'
      /\ op'.name = "loadChannelHistory.then" =>
           /\ calls'[op'.args[1]].outcome = "resolved"
           /\ messages'[op'.args[2]] =
                mergedMessages(channelMessages(Store, op'.args[2]), op'.args[3])
    ]_vars

\* the history of channel 1 failed, its promise resolved, and the history of
\* channel 2 has arrived since
C12_Witness ==
  /\ op.name = "loadChannelHistory.then"
  /\ op.args[2] = 2
  /\ Len(calls) = 2
  /\ calls[1] = Call("loadChannelHistory", "resolved", << >>, FALSE)
  /\ calls[2].outcome = "resolved"
  /\ DOMAIN messages = {2}
  /\ DOMAIN messages[2] = {100}
  /\ ~threw

(***************************************************************************)
(* The read marker of the selected channel                                 *)
(***************************************************************************)
\* this.channels.find(channel => channel.id === channelId): the index of the
\* first such entry, 0 when find returns undefined
getChannel(s, channelId) ==
  IF \E i \in 1..Len(s.channels) : Get(s.channels[i], "id") = channelId
  THEN CHOOSE i \in 1..Len(s.channels) :
         /\ Get(s.channels[i], "id") = channelId
         /\ \A j \in 1..(i - 1) : Get(s.channels[j], "id") # channelId
  ELSE 0

getLastTimestamp(s) ==
  LET timestamps == DOMAIN channelMessages(s, s.lastChannelId)
  IN  IF timestamps # {}
      THEN CHOOSE t \in timestamps : \A u \in timestamps : u <= t
      ELSE undefined

\* !readTimestamp || hasNewerMsgs
shouldMark_notStrict(readTimestamp, lastTs) ==
  ~Truthy(readTimestamp) \/ readTimestamp <= lastTs

shouldMark(readTimestamp, lastTs) ==
  ~Truthy(readTimestamp) \/ readTimestamp < lastTs

\* chatProvider.markChannel(channel, incremented), awaiting its answer
MarkRequest(channelId, incremented) ==
  [kind |-> "markChannel", arg |-> channelId, group |-> NoGroup,
   caller |-> NoCaller, ts |-> incremented]

updateReadMarker(s) ==
  IF s.threw THEN s
  ELSE IF "channels" \in s.undef THEN Throw(s)
  ELSE LET channelId == s.lastChannelId
           channel == getChannel(s, channelId)
           lastTs == getLastTimestamp(s)
       IN  IF channel # 0 /\ lastTs # undefined
           THEN IF shouldMark(Get(s.channels[channel], "readTimestamp"), lastTs)
                THEN IF s.chatProvider = "none" THEN Throw(s)
                     ELSE [s EXCEPT
                             !.pending = Append(@, MarkRequest(channelId, lastTs + 1)),
                             !.sent = @ \cup {"markChannel"}]
                ELSE s
           ELSE s

\* the .then callback of markChannel
markChannelThen(s, channel) == updateAllUI(updateChannel(s, channel))

UpdateLastChannelId(channelId) ==
  LET s == updateLastChannelId(Store, channelId)
  IN  /\ Commit(s, [name |-> "updateLastChannelId", args |-> << channelId >>])

UpdateReadMarker ==
  LET s == updateReadMarker(Store)
  IN  /\ Fits(s)
      /\ Commit(s, [name |-> "updateReadMarker", args |-> << >>])

\* the provider answers markChannel with the channel marked read at ts
MarkChannelOk(i) ==
  /\ i \in 1..Len(pending)
  /\ pending[i].kind = "markChannel"
  /\ LET channel == [id |-> pending[i].arg, readTimestamp |-> pending[i].ts]
     IN  Commit(markChannelThen(Answered(i), channel),
                [name |-> "markChannel.then", args |-> << channel >>])

MarkChannelFail(i) ==
  /\ i \in 1..Len(pending)
  /\ pending[i].kind = "markChannel"
  /\ Commit(Answered(i), [name |-> "markChannel.catch", args |-> << pending[i].arg >>])

MarkerPayloads ==
  { (100 :> Message(2, << >>)), (101 :> Message(1, << >>)) }

NextReadMarker ==
  \/ \E p \in {"slack", "discord"} : InitializeToken(p)
  \/ \E c \in {1, 2} : UpdateLastChannelId(c)
  \/ \E m \in MarkerPayloads : UpdateMessages(1, m)
  \/ \E ch \in { [id |-> 1, readTimestamp |-> 101], Channel(2) } : UpdateChannel(ch)
  \/ UpdateReadMarker
  \/ \E i \in 1..MaxPending : MarkChannelOk(i)
  \/ \E i \in 1..MaxPending : MarkChannelFail(i)
  \/ \E i \in 1..MaxPending : FetchUserInfoOk(i)

SpecReadMarker == Init /\ [][NextReadMarker]_vars

\* the cached timestamps of the selected channel
selectedTimestamps == DOMAIN channelMessages(Store, lastChannelId)

\* the selected channel exists, has a cached message, and has no
\* readTimestamp or one below the newest cached timestamp
marksRead ==
  /\ "channels" \notin undef
  /\ \E i \in 1..Len(channels) :
       /\ Get(channels[i], "id") = lastChannelId
       /\ \A j \in 1..(i - 1) : Get(channels[j], "id") # lastChannelId
       /\ \/ Get(channels[i], "readTimestamp") = undefined
          \/ \E t \in selectedTimestamps : t > Get(channels[i], "readTimestamp")
  /\ selectedTimestamps # {}

\* C13: with a provider to ask, updateReadMarker asks it to mark the selected
\* channel read exactly when that channel exists, has a cached message, and
\* has no readTimestamp or one strictly below the newest cached timestamp; the
\* timestamp it passes is that newest timestamp plus 1; and the answer is
\* merged by updateChannel and followed by the full UI refresh.
C13_ReadMarker ==
  [][ /\ (op'.name = "updateReadMarker" /\ chatProvider = "bound") =>
           /\ marksRead =>
                \E t \in selectedTimestamps :
                  /\ \A u \in selectedTimestamps : u <= t
                  /\ pending' = Append(pending, MarkRequest(lastChannelId, t + 1))
           /\ ~marksRead => pending' = pending
      /\ op'.name = "markChannel.then" =>
           /\ channels' = updatedChannels(channels, op'.args[1])
           /\ {"unread", "webview"} \subseteq ui'
           /\ isAuthenticated(Store) => "trees" \in ui'
    ]_vars

\* the provider has answered the request to mark channel 1, whose newest
\* cached message is at 101, read at 102
C13_Witness ==
  /\ op.name = "markChannel.then"
  /\ op.args[1] = [id |-> 1, readTimestamp |-> 102]
  /\ \E i \in 1..Len(channels) :
       Get(channels[i], "id") = 1 /\ Get(channels[i], "readTimestamp") = 102
  /\ "webview" \in ui
  /\ 101 \in DOMAIN channelMessages(Store, 1)

(***************************************************************************)
(* Unread counts the provider reports                                      *)
(***************************************************************************)
ReportedChannels ==
  { [id |-> 1, unreadCount |-> 0],
    [id |-> 1, unreadCount |-> 3],
    [id |-> 1, readTimestamp |-> 99],
    [id |-> 1, readTimestamp |-> 101] }

NextUnread ==
  \/ \E m \in UnreadPayloads : UpdateMessages(1, m)
  \/ \E ch \in ReportedChannels : UpdateChannel(ch)
  \/ \E chs \in { << >>, << Channel(1) >> } : UpdateChannels(chs)

SpecUnread == Init /\ [][NextUnread]_vars

\* C14: an unmuted channel that carries a provider-reported unreadCount, 0
\* included, has exactly that unread count, whatever its cached messages and
\* its readTimestamp.
C14_ReportedCountVerbatim ==
  "channels" \notin undef =>
    \A i \in 1..Len(channels) :
      ( /\ "unreadCount" \in DOMAIN channels[i]
        /\ ~isChannelMuted(Store, Get(channels[i], "id"))
        /\ ~getUnreadCountThrows(Store, channels[i]) )
      => getUnreadCount(Store, channels[i]) = channels[i].unreadCount

(***************************************************************************)
(* One entry per channel id                                                *)
(***************************************************************************)
\* createIMChannel(user) up to the provider call
createIMChannel(s, user) ==
  callProvider(s, "createIMChannel", Get(user, "id"), NoGroup, NoCaller)

CreateIMChannel(user) ==
  LET s == createIMChannel(Store, user)
  IN  /\ Fits(s)
      /\ Commit(s, [name |-> "createIMChannel", args |-> << user >>])

\* the direct-message channel the provider opens with a user
IMChannelWith(userId) == [id |-> 10 + userId, name |-> userId, type |-> "im"]

\* createIMChannel resolves: updateChannel(channel)
CreateIMChannelOk(i) ==
  /\ i \in 1..Len(pending)
  /\ pending[i].kind = "createIMChannel"
  /\ LET channel == IMChannelWith(pending[i].arg)
     IN  Commit(updateChannel(Answered(i), channel),
                [name |-> "createIMChannel.then", args |-> << channel >>])

\* a call of fetchChannels whose promise nobody keeps
FetchChannels ==
  LET s == fetchChannels(Store, NoCaller)
  IN  /\ Fits(s)
      /\ Commit(s, [name |-> "fetchChannels", args |-> << >>])

\* channel lists as a provider reports them: no id twice
ListedChannels == { << Channel(1) >>, << Channel(2), Channel(1) >> }

NextUnique ==
  \/ \E p \in {"slack", "discord"} : InitializeToken(p)
  \/ FetchChannels
  \/ \E i \in 1..MaxPending, chs \in ListedChannels : FetchChannelsOk(i, chs)
  \/ \E i \in 1..MaxPending, ch \in ChannelInfos(1) \cup ChannelInfos(2) :
       FetchChannelInfoOk(i, ch)
  \/ UpdateChannel(Channel(2))
  \/ CreateIMChannel(User(1))
  \/ \E i \in 1..MaxPending : CreateIMChannelOk(i)
  \/ UpdateMessages(1, (100 :> Message(1, << >>)))
  \/ UpdateReadMarker
  \/ \E i \in 1..MaxPending : MarkChannelOk(i)
  \/ ClearOldWorkspace

SpecUnique == Init /\ [][NextUnique]_vars

\* C15: whatever the order of fetchChannels answers, channel info answers,
\* updateChannel, createIMChannel and markChannel answers and clears, the
\* channel collection holds at most one entry per channel id.
C15_OneEntryPerChannelId ==
  \A i, j \in 1..Len(channels) :
    Get(channels[i], "id") = Get(channels[j], "id") => i = j

\* a direct-message channel was opened next to two listed channels, one of
\* them already merged with its channel info
C15_Witness ==
  /\ op.name = "createIMChannel.then"
  /\ Len(channels) = 3
  /\ \E i \in 1..Len(channels) : Get(channels[i], "unreadCount") = 2
  /\ ~threw

(***************************************************************************)
(* Replies: reactions and thread replies arrive for messages the store     *)
(* tracks and for messages it does not                                     *)
(***************************************************************************)
Reply(timestamp, userId) == [timestamp |-> timestamp, userId |-> userId]

\* messages[parentTimestamp] of updateMessageReply, undefinedMessage when absent
trackedParent_stub(s, channelId, parentTimestamp) ==
  IF hasMessage(s, channelId, parentTimestamp)
  THEN s.messages[channelId][parentTimestamp]
  ELSE Message(undefined, << >>)

trackedParent(s, channelId, parentTimestamp) ==
  IF hasMessage(s, channelId, parentTimestamp)
  THEN s.messages[channelId][parentTimestamp]
  ELSE undefinedMessage

updateMessageReply(s, parentTimestamp, channelId, reply) ==
  LET message == trackedParent(s, channelId, parentTimestamp)
  IN  IF s.threw \/ message = undefinedMessage THEN s
      ELSE LET replies == Spread(message.replies, (reply.timestamp :> reply))
               newMessages == (parentTimestamp :> [message EXCEPT !.replies = replies])
           IN  updateMessages(s, channelId, newMessages)

UpdateMessageReply(parentTimestamp, channelId, reply) ==
  LET s == updateMessageReply(Store, parentTimestamp, channelId, reply)
  IN  /\ Fits(s)
      /\ Commit(s, [name |-> "updateMessageReply",
                    args |-> << parentTimestamp, channelId, reply >>])

NextReplies ==
  \/ \E p \in {"slack", "discord"} : InitializeToken(p)
  \/ UpdateMessages(1, (100 :> Message(1, << Reaction("r1", << 1 >>) >>)))
  \/ \E c \in {1, 2}, ts \in {100, 101} : AddReaction(c, ts, 2, "r1")
  \/ \E c \in {1, 2}, ts \in {100, 101} : RemoveReaction(c, ts, 2, "r1")
  \/ \E c \in {1, 2}, ts \in {100, 101}, r \in {200, 201} :
       UpdateMessageReply(ts, c, Reply(r, 2))

SpecReplies == Init /\ [][NextReplies]_vars

\* the last step was an addReaction, removeReaction or updateMessageReply
\* for a message the store did not track
untrackedTarget(before, o) ==
  \/ /\ o.name \in {"addReaction", "removeReaction"}
     /\ ~hasMessage(before, o.args[1], o.args[2])
  \/ /\ o.name = "updateMessageReply"
     /\ ~hasMessage(before, o.args[2], o.args[1])

\* C16: an addReaction, removeReaction or updateMessageReply that names a
\* channel without a message mapping, or a timestamp that is not in the
\* channel's mapping, leaves messages, channels and users as they were,
\* creates no entry for the timestamp, throws nothing, asks the provider
\* nothing and notifies no view
C16_UntrackedIsIgnored ==
  [][ untrackedTarget(Store, op') =>
        /\ messages' = messages
        /\ channels' = channels
        /\ users' = users
        /\ undef' = undef
        /\ pending' = pending
        /\ ui' = {}
        /\ sent' = {}
        /\ ~threw' ]_vars

\* all three have been ignored: the store tracks timestamp 100 of channel 1
\* and the last step named another timestamp or channel
C16_Witness ==
  /\ op.name = "updateMessageReply"
  /\ hasMessage(Store, 1, 100)
  /\ ~hasMessage(Store, op.args[2], op.args[1])
  /\ ui = {}
  /\ ~threw

(***************************************************************************)
(* The recount of fetchChannels: the list arrives, the channel info        *)
(* fetches are answered in any order, some of them fail                    *)
(***************************************************************************)
JoinedLists == { << >>, << Channel(1) >>, << Channel(2), Channel(1) >> }

NextJoin ==
  \/ \E p \in {"slack", "discord"} : InitializeToken(p)
  \/ FetchChannels
  \/ \E i \in 1..MaxPending, chs \in JoinedLists : FetchChannelsOk(i, chs)
  \/ \E i \in 1..MaxPending, ch \in ChannelInfos(1) \cup ChannelInfos(2) :
       FetchChannelInfoOk(i, ch)
  \/ \E i \in 1..MaxPending : FetchChannelInfoFail(i)

\* request i is a fetchChannelInfo and the step answers it, either way
infoAnswered(i) ==
  /\ i \in 1..Len(pending)
  /\ pending[i].kind = "fetchChannelInfo"
  /\ pending' = RemoveAt(pending, i)

\* the provider answers every fetchChannelInfo it was asked: the request at
\* each position is answered when it stays there
JoinFairness == \A i \in 1..MaxPending : WF_pending(infoAnswered(i))

SpecJoin == Init /\ [][NextJoin]_vars /\ JoinFairness

\* request i was the last outstanding fetchChannelInfo of its fetchChannels,
\* no fetch of that fetchChannels has failed, and the step answered it
lastOfItsFetch(i, newChannel) ==
  /\ i \in 1..Len(pending)
  /\ pending[i].kind = "fetchChannelInfo"
  /\ pending[i].arg = Get(newChannel, "id")
  /\ ~joins[pending[i].group].failed
  /\ pending' = RemoveAt(pending, i)
  /\ \A j \in 1..Len(pending') : pending'[j].group # pending[i].group

\* the channel collection holds the fields of the answer
isMerged(chs, newChannel) ==
  \E k \in 1..Len(chs) :
    /\ Get(chs[k], "id") = Get(newChannel, "id")
    /\ \A f \in DOMAIN newChannel : Get(chs[k], f) = newChannel[f]

\* a step recounts only as the answer to the last fetchChannelInfo of a
\* fetchChannels, after merging it, or as the answer to an empty list
recountsOnlyWhenJoined ==
  [][ "unread" \in ui' =>
        \/ /\ op'.name = "fetchChannels.then"
           /\ op'.args[2] = << >>
        \/ /\ op'.name = "fetchChannelInfo.then"
           /\ \E i \in 1..Len(pending) : lastOfItsFetch(i, op'.args[1])
           /\ isMerged(channels', op'.args[1]) ]_vars

\* every answered fetchChannelInfo is merged in the step that answers it
infoIsMerged ==
  [][ op'.name = "fetchChannelInfo.then" => isMerged(channels', op'.args[1]) ]_vars

joinOutstanding(g) ==
  /\ g \in DOMAIN joins
  /\ joins[g].kind = "fetchChannels"
  /\ ~joins[g].failed

recounted(g) ==
  /\ g \notin DOMAIN joins
  /\ op.name = "fetchChannelInfo.then"
  /\ op.args[2]
  /\ "unread" \in ui
  /\ ~threw

infoFailed == op.name = "fetchChannelInfo.catch"

\* C17: the recount of a fetchChannels happens only after every
\* fetchChannelInfo of that fetchChannels has been answered and merged by
\* updateChannel, in whatever order the answers arrive; and a fetchChannels
\* whose info fetches are outstanding is eventually recounted unless an
\* info fetch fails
C17_RecountAfterAllInfos ==
  /\ recountsOnlyWhenJoined
  /\ infoIsMerged
  /\ \A g \in 1..MaxPending : joinOutstanding(g) ~> (recounted(g) \/ infoFailed)

\* two channels were listed, the info of the second arrived before the
\* info of the first, and the recount followed the last of them
C17_Witness ==
  /\ op.name = "fetchChannelInfo.then"
  /\ op.args[2]
  /\ Get(op.args[1], "id") = 2
  /\ "unread" \in ui
  /\ Len(channels) = 2
  /\ \A k \in 1..2 : Get(channels[k], "unreadCount") = 2
  /\ statusItem = 4

(***************************************************************************)
(* The user cache while a fillUpUsers is in flight: presence updates and   *)
(* fetchUsers answers arrive before the fetchUserInfo answers              *)
(***************************************************************************)
\* `userId in this.users` is a TypeError when this.users is undefined; the
\* entry is changed in place, nothing is persisted
updateUserPresence(s, userId, isOnline) ==
  IF s.threw THEN s
  ELSE IF "users" \in s.undef THEN Throw(s)
  ELSE IF userId \in DOMAIN s.users
  THEN updateTreeViews(
         [s EXCEPT !.users[userId] = Spread(@, [isOnline |-> isOnline])])
  ELSE s

UpdateUserPresence(userId, isOnline) ==
  LET s == updateUserPresence(Store, userId, isOnline)
  IN  /\ Commit(s, [name |-> "updateUserPresence", args |-> << userId, isOnline >>])

\* a call of fetchUsers whose promise nobody keeps
FetchUsers ==
  LET s == fetchUsers(Store, NoCaller)
  IN  /\ Fits(s)
      /\ Commit(s, [name |-> "fetchUsers", args |-> << >>])

NextPresence ==
  \/ \E p \in {"slack", "discord"} : InitializeToken(p)
  \/ \E ids \in {{8}, {9}} : FillUpUsers(ids)
  \/ \E u \in {2, 9}, isOnline \in BOOLEAN : UpdateUserPresence(u, isOnline)
  \/ FetchUsers
  \/ \E i \in 1..MaxPending : FetchUsersOk(i, (1 :> User(1)) @@ (3 :> User(3)))
  \/ \E i \in 1..MaxPending : FetchUserInfoOk(i)

SpecPresence == Init /\ [][NextPresence]_vars

\* C18: when a fillUpUsers completes, every user the cache held just before
\* is still in it, unchanged, apart from the user the completing answer
\* fetched: what updateUserPresence, a fetchUsers answer or another
\* fillUpUsers put there while this one was in flight is kept
C18_FillUpKeepsCacheAtCompletion ==
  [][ (op'.name = "fetchUserInfo.then" /\ op'.args[2] /\ "users" \notin undef)
      => \A u \in DOMAIN users \ {op'.args[1]} :
           /\ u \in DOMAIN users'
           /\ users'[u] = users[u] ]_vars

(***************************************************************************)
(* The read marker under refetches: a channel list and its channel infos   *)
(* are fetched while a markChannel is outstanding                          *)
(***************************************************************************)
\* channel 1 as the provider knew it before the markChannel
StaleChannel == [id |-> 1, name |-> 1, type |-> "channel", readTimestamp |-> 99]

StaleInfo == [id |-> 1, readTimestamp |-> 99, unreadCount |-> 2]

NextMarks ==
  \/ \E p \in {"slack", "discord"} : InitializeToken(p)
  \/ UpdateMessages(1, (100 :> Message(2, << >>)))
  \/ UpdateReadMarker
  \/ \E i \in 1..MaxPending : MarkChannelOk(i)
  \/ FetchChannels
  \/ \E i \in 1..MaxPending : FetchChannelsOk(i, << StaleChannel >>)
  \/ \E i \in 1..MaxPending : FetchChannelInfoOk(i, StaleInfo)

SpecMarks == Init /\ [][NextMarks]_vars

\* C19: an answer to fetchChannels, fetchChannelInfo or markChannel never
\* lowers the readTimestamp of a channel that stays in the collection
C19_ReadTimestampNeverDecreases ==
  [][ op'.name \in {"fetchChannels.then", "fetchChannelInfo.then", "markChannel.then"}
      => \A i \in 1..Len(channels), j \in 1..Len(channels') :
           ( /\ Get(channels[i], "id") = Get(channels'[j], "id")
             /\ Get(channels[i], "readTimestamp") # undefined )
           => Get(channels'[j], "readTimestamp") >= Get(channels[i], "readTimestamp")
    ]_vars

(***************************************************************************)
(* Answers that arrive after clearOldWorkspace: every kind of provider     *)
(* request is outstanding when the workspace is cleared                    *)
(***************************************************************************)
\* the request remembers currentChannelId, read when fetchThreadReplies is called
ThreadRequest(currentChannelId, parentTimestamp) ==
  [kind |-> "fetchThreadReplies", arg |-> parentTimestamp, group |-> NoGroup,
   caller |-> NoCaller, channelId |-> currentChannelId]

fetchThreadReplies(s, parentTimestamp) ==
  IF s.threw THEN s
  ELSE IF s.chatProvider = "none" THEN Throw(s)
  ELSE [s EXCEPT
          !.pending = Append(@, ThreadRequest(s.lastChannelId, parentTimestamp)),
          !.sent = @ \cup {"fetchThreadReplies"}]

\* the .then callback of fetchThreadReplies
fetchThreadRepliesThen(s, currentChannelId, parentTimestamp, message) ==
  updateMessages(s, currentChannelId, (parentTimestamp :> message))

FetchThreadReplies(parentTimestamp) ==
  LET s == fetchThreadReplies(Store, parentTimestamp)
  IN  /\ Fits(s)
      /\ Commit(s, [name |-> "fetchThreadReplies", args |-> << parentTimestamp >>])

FetchThreadRepliesOk(i, message) ==
  /\ i \in 1..Len(pending)
  /\ pending[i].kind = "fetchThreadReplies"
  /\ LET s == fetchThreadRepliesThen(Answered(i), pending[i].channelId,
                                     pending[i].arg, message)
     IN  /\ Fits(s)
         /\ Commit(s, [name |-> "fetchThreadReplies.then",
                       args |-> << pending[i].channelId, pending[i].arg, message >>])

NextStale ==
  \/ InitializeToken("slack")
  \/ FetchUsers
  \/ \E i \in 1..MaxPending : FetchUsersOk(i, (3 :> User(3)))
  \/ FetchChannels
  \/ \E i \in 1..MaxPending : FetchChannelsOk(i, << Channel(2) >>)
  \/ \E i \in 1..MaxPending, ch \in ChannelInfos(2) : FetchChannelInfoOk(i, ch)
  \/ \E i \in 1..MaxPending : FetchUserInfoOk(i)
  \/ LoadChannelHistory(1)
  \/ \E i \in 1..MaxPending : LoadChannelHistoryOk(i, (100 :> Message(1, << >>)))
  \/ FetchThreadReplies(100)
  \/ \E i \in 1..MaxPending : FetchThreadRepliesOk(i, Message(1, << >>))
  \/ UpdateReadMarker
  \/ \E i \in 1..MaxPending : MarkChannelOk(i)
  \/ ClearOldWorkspace

SpecStale == Init /\ [][NextStale]_vars

providerAnswers ==
  { "fetchChannels.then", "fetchChannelInfo.then", "fetchUsers.then",
    "fetchUserInfo.then", "loadChannelHistory.then", "fetchThreadReplies.then",
    "markChannel.then" }

\* C20: an answer that arrives right after clearOldWorkspace, hence to a
\* request issued before it, leaves channels, users and messages empty
C20_NoStaleAnswerRepopulates ==
  [][ (op.name = "clearOldWorkspace" /\ ~threw /\ op'.name \in providerAnswers)
      => /\ channels' = << >>
         /\ users' = EmptyObject
         /\ messages' = EmptyObject ]_vars

(***************************************************************************)
(* Well-formed reactions                                                   *)
(***************************************************************************)
\* count is the number of userIds, at least 1, and no user is listed twice
wellFormedReaction(r) ==
  /\ r.count = Len(r.userIds)
  /\ r.count >= 1
  /\ \A i, j \in 1..Len(r.userIds) : r.userIds[i] = r.userIds[j] => i = j

\* C21: messages arrive with well-formed reactions, and under every sequence
\* of addReaction and removeReaction calls every stored reaction has count
\* equal to the number of its userIds, count at least 1, and no user id twice
C21_ReactionsWellFormed ==
  \A c \in DOMAIN messages : \A ts \in DOMAIN messages[c] :
    \A i \in 1..Len(messages[c][ts].reactions) :
      wellFormedReaction(messages[c][ts].reactions[i])

(***************************************************************************)
(* The unread total on the status item under every operation that changes  *)
(* the unread counts                                                       *)
(***************************************************************************)
updateUserPrefs(s) == callProvider(s, "getUserPrefs", undefined, NoGroup, NoCaller)

\* the .then callback of updateUserPrefs; mutedChannels is the response
updateUserPrefsThen(s, mutedChannels) ==
  updateUnreadCount([s EXCEPT !.currentUserPrefs = mutedChannels])

UpdateUserPrefs ==
  LET s == updateUserPrefs(Store)
  IN  /\ Fits(s)
      /\ Commit(s, [name |-> "updateUserPrefs", args |-> << >>])

GetUserPrefsOk(i, mutedChannels) ==
  /\ i \in 1..Len(pending)
  /\ pending[i].kind = "getUserPrefs"
  /\ Commit(updateUserPrefsThen(Answered(i), mutedChannels),
            [name |-> "getUserPrefs.then", args |-> << mutedChannels >>])

NextTotal ==
  \/ InitializeToken("slack")
  \/ UpdateChannel([id |-> 1, unreadCount |-> 2])
  \/ CreateIMChannel(User(1))
  \/ \E i \in 1..MaxPending : CreateIMChannelOk(i)
  \/ FetchChannels
  \/ \E i \in 1..MaxPending : FetchChannelsOk(i, << Channel(1) >>)
  \/ \E i \in 1..MaxPending, ch \in ChannelInfos(1) : FetchChannelInfoOk(i, ch)
  \/ UpdateMessages(1, (100 :> Message(1, << >>)))
  \/ UpdateUserPrefs
  \/ \E i \in 1..MaxPending, muted \in {{}, {1}} : GetUserPrefsOk(i, muted)
  \/ UpdateReadMarker
  \/ \E i \in 1..MaxPending : MarkChannelOk(i)
  \/ ClearOldWorkspace

SpecTotal == Init /\ [][NextTotal]_vars

\* the sum of getUnreadCount over the channel collection
unreadTotal ==
  SumSeq([i \in 1..Len(channels) |-> getUnreadCount(Store, channels[i])])

changesUnreadTotal ==
  { "updateChannel", "createIMChannel.then", "fetchChannels.then",
    "fetchChannelInfo.then", "updateMessages", "getUserPrefs.then",
    "markChannel.then", "clearOldWorkspace" }

\* C22: when one of the operations that change the unread counts has run,
\* no provider call is outstanding and a count was given to the status item,
\* the count last given is the sum of getUnreadCount over the channel
\* collection
C22_StatusItemShowsTotal ==
  ( /\ op.name \in changesUnreadTotal
    /\ pending = << >>
    /\ statusItem # undefined
    /\ ~threw
    /\ "channels" \notin undef )
  => statusItem = unreadTotal

====
